---- MODULE Spec2Model ----
(***************************************************************************)
(* Model of seurat_rig.py (googlevr/seurat, generation/maya): the planner  *)
(* of a cube-map camera rig and its JSON manifest.                         *)
(*                                                                         *)
(* Python floats are binary floating-point numbers: every arithmetic       *)
(* operation returns the exact result rounded to the nearest representable *)
(* value, ties to even.  The model keeps that rounding.  A float is a pair *)
(* <<m, e>> standing for m * 2^e, with m odd (or <<0, 0>> for zero), whose *)
(* significand has at most Precision bits.  CPython's float has 53 bits;   *)
(* the model uses a narrower significand so that the rounding cases (the   *)
(* ones that need 2^53-sized operands in CPython) happen on small numbers. *)
(* Exponents are unbounded: overflow and underflow are not modelled.       *)
(***************************************************************************)
EXTENDS Integers, Sequences, FiniteSets, TLC

\* ---------------------------------------------------------------- bounds
Precision == 4
MaxCount == 4
MaxIndex == 32
MaxBase == 4
MaxClip == 3

\* ------------------------------------------------- floating-point numbers
RECURSIVE Pow2(_)
Pow2(n) == IF n <= 0 THEN 1 ELSE 2 * Pow2(n - 1)

Abs(x) == IF x < 0 THEN -x ELSE x

Sign(x) == IF x < 0 THEN -1 ELSE 1

\* canonical form of the dyadic number m * 2^e
RECURSIVE Norm(_, _)
Norm(m, e) ==
  IF m = 0 THEN <<0, 0>>
  ELSE IF m % 2 = 0 THEN Norm(m \div 2, e + 1)
  ELSE <<m, e>>

\* number of bits of the positive integer n
RECURSIVE BitLen(_)
BitLen(n) == IF n <= 0 THEN 0 ELSE 1 + BitLen(n \div 2)

\* m * 2^e rounded to Precision significant bits, ties to even
Round(m, e) ==
  LET a == Abs(m)
      s == BitLen(a) - Precision
  IN IF s <= 0 THEN Norm(m, e)
     ELSE LET q == a \div Pow2(s)
              r == a % Pow2(s)
              half == Pow2(s - 1)
              up == (r > half) \/ (r = half /\ q % 2 = 1)
          IN Norm(Sign(m) * (IF up THEN q + 1 ELSE q), e + s)

\* the exact sum of two floats, as an integer multiple of 2^MinExp
MinExp(x, y) == IF x[2] < y[2] THEN x[2] ELSE y[2]

Aligned(x, e) == x[1] * Pow2(x[2] - e)

FromInt(i) == Round(i, 0)

FAdd(x, y) ==
  LET e == MinExp(x, y) IN Round(Aligned(x, e) + Aligned(y, e), e)

FSub(x, y) ==
  LET e == MinExp(x, y) IN Round(Aligned(x, e) - Aligned(y, e), e)

FMul(x, y) == Round(x[1] * y[1], x[2] + y[2])

\* x / y for y # 0: the quotient is computed with Precision + 2 extra bits
\* and a sticky bit for the remainder, then rounded
FDiv(x, y) ==
  LET k == 2 * Precision + 1
      n == Abs(x[1]) * Pow2(k)
      d == Abs(y[1])
      q == n \div d
      sticky == IF n % d = 0 THEN 0 ELSE 1
  IN Round(Sign(x[1]) * Sign(y[1]) * (2 * q + sticky), x[2] - y[2] - k - 1)

FLess(x, y) ==
  LET e == MinExp(x, y) IN Aligned(x, e) < Aligned(y, e)

FLeq(x, y) ==
  LET e == MinExp(x, y) IN Aligned(x, e) <= Aligned(y, e)

FMax(x, y) == IF FLess(x, y) THEN y ELSE x

FMin(x, y) == IF FLess(y, x) THEN y ELSE x

\* floor of the square root of the natural number n
RECURSIVE ISqrtFrom(_, _)
ISqrtFrom(n, s) == IF (s + 1) * (s + 1) > n THEN s ELSE ISqrtFrom(n, s + 1)

RECURSIVE ISqrt(_)
ISqrt(n) ==
  IF n < 4 THEN ISqrtFrom(n, 0)
  ELSE LET s == 2 * ISqrt(n \div 4)
       IN IF (s + 1) * (s + 1) > n THEN s ELSE s + 1

\* math.sqrt of a float x >= 0, correctly rounded
FSqrt(x) ==
  IF x[1] = 0 THEN <<0, 0>>
  ELSE LET k0 == 2 * Precision + 4
           k == IF (x[2] - k0) % 2 = 0 THEN k0 ELSE k0 + 1
           n == x[1] * Pow2(k)
           s == ISqrt(n)
           sticky == IF s * s = n THEN 0 ELSE 1
       IN Round(2 * s + sticky, ((x[2] - k) \div 2) - 1)

Zero == <<0, 0>>
One == <<1, 0>>
Half == <<1, -1>>

Neg(x) == <<-x[1], x[2]>>

\* ------------------------------------------------------ results of calls
Return(v) == [raised |-> "none", value |-> v]

Raise(exception) == [raised |-> exception, value |-> <<>>]

\* ------------------------------------------------------- cube-face geometry
Faces == <<"front", "back", "left", "right", "bottom", "top">>

\* Element of a row-major 4x4 matrix by its Python index 0..15
At(matrix, index) == matrix[index + 1]

FrontMatrix ==
  << One,  Zero, Zero, Zero,
     Zero, One,  Zero, Zero,
     Zero, Zero, One,  Zero,
     Zero, Zero, Zero, One >>

BackMatrix ==
  << Neg(One), Zero, Zero,     Zero,
     Zero,     One,  Zero,     Zero,
     Zero,     Zero, Neg(One), Zero,
     Zero,     Zero, Zero,     One >>

LeftMatrix ==
  << Zero,     Zero, One,  Zero,
     Zero,     One,  Zero, Zero,
     Neg(One), Zero, Zero, Zero,
     Zero,     Zero, Zero, One >>

RightMatrix ==
  << Zero, Zero, Neg(One), Zero,
     Zero, One,  Zero,     Zero,
     One,  Zero, Zero,     Zero,
     Zero, Zero, Zero,     One >>

BottomMatrix ==
  << One,  Zero,     Zero, Zero,
     Zero, Zero,     One,  Zero,
     Zero, Neg(One), Zero, Zero,
     Zero, Zero,     Zero, One >>

TopMatrix ==
  << One,  Zero, Zero,     Zero,
     Zero, Zero, Neg(One), Zero,
     Zero, One,  Zero,     Zero,
     Zero, Zero, Zero,     One >>

\* the left and right matrices exchanged
WorldFromEyeMatrixLeftRightSwapped(face_name) ==
  CASE face_name = "front" -> Return(FrontMatrix)
    [] face_name = "back" -> Return(BackMatrix)
    [] face_name = "left" -> Return(RightMatrix)
    [] face_name = "right" -> Return(LeftMatrix)
    [] face_name = "bottom" -> Return(BottomMatrix)
    [] face_name = "top" -> Return(TopMatrix)
    [] OTHER -> Raise("ValueError")

\* The `is` comparisons of the source hold exactly for the interned literals
\* the callers pass, so they are modelled as equality of face names.
WorldFromEyeMatrixFromFace(face_name) ==
  CASE face_name = "front" -> Return(FrontMatrix)
    [] face_name = "back" -> Return(BackMatrix)
    [] face_name = "left" -> Return(LeftMatrix)
    [] face_name = "right" -> Return(RightMatrix)
    [] face_name = "bottom" -> Return(BottomMatrix)
    [] face_name = "top" -> Return(TopMatrix)
    [] OTHER -> Raise("ValueError")

\* The six denominators of lines 129-134, in source order
ProjectionDenominators(near, far) ==
  LET left == Neg(near)
      right == near
      bottom == Neg(near)
      top == near
  IN << FSub(right, left), FSub(top, bottom), FSub(right, left),
        FSub(top, bottom), FSub(near, far), FSub(near, far) >>

\* far == near let through
ClipRangeInvalidStrict(near, far) == FLeq(near, Zero) \/ FLess(far, near)

\* lines 119-123
ClipRangeInvalid(near, far) == FLeq(near, Zero) \/ FLeq(far, near)

CubeFaceProjectionMatrix(near, far) ==
  IF ClipRangeInvalid(near, far) THEN Raise("ValueError")
  ELSE IF \E k \in 1..6 : ProjectionDenominators(near, far)[k] = Zero
       THEN Raise("ZeroDivisionError")
  ELSE
    LET left == Neg(near)
        right == near
        bottom == Neg(near)
        top == near
        two == FromInt(2)
        a == FDiv(FMul(two, near), FSub(right, left))
        b == FDiv(FMul(two, near), FSub(top, bottom))
        c == FDiv(FAdd(right, left), FSub(right, left))
        d == FDiv(FAdd(top, bottom), FSub(top, bottom))
        e == FDiv(FAdd(near, far), FSub(near, far))
        f == FDiv(FMul(FMul(two, near), far), FSub(near, far))
    IN Return(<< a,    Zero, c,        Zero,
                 Zero, b,    d,        Zero,
                 Zero, Zero, e,        f,
                 Zero, Zero, Neg(One), Zero >>)

\* ------------------------------------------------------------- sampling
\* One iteration of the digit-reversal loop on <<a, reversed_digits, base_n>>
RadicalInverseIteration(st, base) ==
  LET a == st[1]
      next_a == a \div base
      digit == a - next_a * base
  IN << next_a, st[2] * base + digit, st[3] * base >>

RECURSIVE RadicalInverseLoop(_, _)
RadicalInverseLoop(st, base) ==
  IF st[1] > 0 THEN RadicalInverseLoop(RadicalInverseIteration(st, base), base)
  ELSE st

\* min(reversed_digits / float(base_n), 1.0)
RadicalInverseResult(reversed_digits, base_n) ==
  FMin(FDiv(FromInt(reversed_digits), FromInt(base_n)), One)

RadicalInverse(a, base) ==
  LET st == RadicalInverseLoop(<<a, 0, 1>>, base)
  IN RadicalInverseResult(st[2], st[3])

HammersleySample(i, num_cameras) ==
  << FDiv(FromInt(i), FromInt(num_cameras)),
     RadicalInverse(i, 2),
     RadicalInverse(i, 3) >>

\* ------------------------------------------------------------ box mapping
PointInBox(box_min, box_max, sample) ==
  [d \in 1..3 |->
     LET delta == FSub(box_max[d], box_min[d])
         offset == FMul(delta, sample[d])
     IN FAdd(box_min[d], offset)]

Distance(point_a, point_b) ==
  LET delta == [d \in 1..3 |-> FSub(point_a[d], point_b[d])]
      delta_sqr == [d \in 1..3 |-> FMul(delta[d], delta[d])]
      distance_sqr ==
        FAdd(FAdd(FAdd(Zero, delta_sqr[1]), delta_sqr[2]), delta_sqr[3])
  IN FSqrt(distance_sqr)

HeadboxCenter(box_min, box_max) ==
  PointInBox(box_min, box_max, <<Half, Half, Half>>)

\* sorted(points, key = distance to center): stable, ascending
RECURSIVE InsertByDistance(_, _, _)
InsertByDistance(sorted, point, center) ==
  IF sorted = <<>> THEN <<point>>
  ELSE LET last == sorted[Len(sorted)]
       IN IF FLess(Distance(point, center), Distance(last, center))
          THEN Append(InsertByDistance(SubSeq(sorted, 1, Len(sorted) - 1),
                                       point, center), last)
          ELSE Append(sorted, point)

RECURSIVE SortedByDistance(_, _)
SortedByDistance(points, center) ==
  IF points = <<>> THEN <<>>
  ELSE InsertByDistance(
         SortedByDistance(SubSeq(points, 1, Len(points) - 1), center),
         points[Len(points)], center)

\* ----------------------------------------------------- path substitution
Digits == <<"0", "1", "2", "3", "4", "5", "6", "7", "8", "9">>

RECURSIVE Str(_)
Str(n) ==
  IF n < 10 THEN Digits[n + 1] ELSE Str(n \div 10) \o Digits[(n % 10) + 1]

RECURSIVE ZeroPad(_, _)
ZeroPad(text, width) ==
  IF Len(text) >= width THEN text ELSE ZeroPad("0" \o text, width)

\* pattern % args: pattern is a sequence of tokens, "%s" and "%04d" are the
\* conversions and every other token is literal text; args is the tuple of
\* values still to be consumed, each a string or an integer
StrArg(text) == [type |-> "str", text |-> text, number |-> 0]

IntArg(number) == [type |-> "int", text |-> "", number |-> number]

RECURSIVE Substitute(_, _)
Substitute(pattern, args) ==
  IF pattern = <<>>
  THEN IF args = <<>> THEN Return("") ELSE Raise("TypeError")
  ELSE
    LET token == Head(pattern)
        conversion == token \in {"%s", "%04d"}
    IN IF conversion /\ args = <<>> THEN Raise("TypeError")
       ELSE IF token = "%04d" /\ Head(args).type = "str"
            THEN Raise("TypeError")
       ELSE
         LET text == IF token = "%s"
                     THEN (IF Head(args).type = "str" THEN Head(args).text
                           ELSE Str(Head(args).number))
                     ELSE IF token = "%04d"
                          THEN ZeroPad(Str(Head(args).number), 4)
                     ELSE token
             rest == Substitute(Tail(pattern),
                                IF conversion THEN Tail(args) ELSE args)
         IN IF rest.raised # "none" THEN rest
            ELSE Return(text \o rest.value)

\* pattern % (face, view_group_index)
FormatPath(pattern, face, view_group_index) ==
  Substitute(pattern, <<StrArg(face), IntArg(view_group_index)>>)

\* rotation applied by RotateCamera: the attribute set and its angle
RotateCamera(face_name) ==
  CASE face_name = "front" -> <<"none", 0>>
    [] face_name = "back" -> <<"rotateY", 180>>
    [] face_name = "left" -> <<"rotateY", 90>>
    [] face_name = "right" -> <<"rotateY", -90>>
    [] face_name = "bottom" -> <<"rotateX", -90>>
    [] face_name = "top" -> <<"rotateX", 90>>
    [] OTHER -> <<"ValueError", 0>>

\* ------------------------------------------------------------------ state
VARIABLES
  \* arguments of CreateRig
  headbox_min, headbox_max, num_view_groups, image_size, near_clip, far_clip,
  depth_type, depth_channel_name, color_file_path_pattern,
  depth_file_path_pattern, json_only,
  \* control: the statement CreateRig has reached, and the exception raised
  pc, raised,
  \* GenerateCameraPositions
  samples, max_sample, unsorted_positions, camera_positions,
  \* the host scene (maya.cmds)
  timeline, cameras,
  \* CreateViewGroups; heap holds the world-from-eye list objects by identity
  view_group_index, face_index, position, clip_from_eye_matrix,
  world_from_eye_matrix, translation_index, heap, views, view_groups,
  \* the manifest
  json_string, json_file,
  \* a call of RadicalInverse on its own
  ri_pc, ri_index, ri_base, ri_a, reversed_digits, base_n, ri_result,
  \* a call of CubeFaceProjectionMatrix on its own
  proj_pc, proj_near, proj_far, proj_result

argVars == << headbox_min, headbox_max, num_view_groups, image_size, near_clip,
              far_clip, depth_type, depth_channel_name,
              color_file_path_pattern, depth_file_path_pattern, json_only >>

genVars == << samples, max_sample, unsorted_positions, camera_positions >>

hostVars == << timeline, cameras >>

viewVars == << view_group_index, face_index, position, clip_from_eye_matrix,
               world_from_eye_matrix, translation_index, heap, views,
               view_groups >>

fileVars == << json_string, json_file >>

riVars == << ri_pc, ri_index, ri_base, ri_a, reversed_digits, base_n,
             ri_result >>

projVars == << proj_pc, proj_near, proj_far, proj_result >>

rigVars == << argVars, pc, raised, genVars, hostVars, viewVars, fileVars >>

vars == << rigVars, riVars, projVars >>

\* ---------------------------------------------------------------- inputs
Vec(a, b, c) == << a, b, c >>

\* headboxes with min[i] <= max[i] on every axis
Headboxes ==
  { << Vec(<<-1, -1>>, <<-1, -1>>, <<-1, -1>>),
       Vec(<<1, -1>>, <<1, -1>>, <<1, -1>>) >>,
    << Vec(<<-5, 0>>, <<0, 0>>, <<-1, 0>>),
       Vec(<<-13, -3>>, <<1, 0>>, <<1, 0>>) >>,
    << Vec(<<0, 0>>, <<-1, 0>>, <<1, -2>>),
       Vec(<<1, 1>>, <<3, 0>>, <<1, -2>>) >>,
    << Vec(<<1, 0>>, <<1, 0>>, <<1, 0>>),
       Vec(<<1, 0>>, <<1, 0>>, <<1, 0>>) >> }

Counts == (-1) .. MaxCount

\* <<near, far>>: valid, near = 0, far = near
ClipPlanes ==
  { << <<1, -1>>, <<1, 2>> >>, << <<0, 0>>, <<1, 2>> >>,
    << <<1, 1>>, <<1, 1>> >> }

\* <<color pattern, depth pattern>>: both well formed; a colour pattern
\* with no conversion; a depth pattern whose %04d meets the face name
PathPatterns ==
  { << <<"%s", "_color.", "%04d", ".exr">>,
       <<"%s", "_depth.", "%04d", ".exr">> >>,
    << <<"color.exr">>, <<"%s", "_depth.", "%04d", ".exr">> >>,
    << <<"%s", "_color.", "%04d", ".exr">>, <<"%04d", "_", "%s">> >> }

\* <<image_size, depth_type, depth_channel_name>>
RenderSettings == { <<1024, "EYE_Z", "A">>, <<512, "WINDOW_Z", "R">> }

NoFile == [opened |-> FALSE, written |-> FALSE, content |-> <<>>]

RigLocalsInit ==
  /\ raised = "none"
  /\ samples = <<>>
  /\ max_sample = <<>>
  /\ unsorted_positions = <<>>
  /\ camera_positions = <<>>
  /\ timeline = <<>>
  /\ cameras = <<>>
  /\ view_group_index = 0
  /\ face_index = 1
  /\ position = <<>>
  /\ clip_from_eye_matrix = <<>>
  /\ world_from_eye_matrix = 0
  /\ translation_index = 0
  /\ heap = <<>>
  /\ views = <<>>
  /\ view_groups = <<>>
  /\ json_string = <<>>
  /\ json_file = NoFile

RigInit ==
  /\ \E box \in Headboxes : headbox_min = box[1] /\ headbox_max = box[2]
  /\ num_view_groups \in Counts
  /\ \E clip \in ClipPlanes : near_clip = clip[1] /\ far_clip = clip[2]
  /\ \E pat \in PathPatterns :
       color_file_path_pattern = pat[1] /\ depth_file_path_pattern = pat[2]
  /\ \E set \in RenderSettings :
       image_size = set[1] /\ depth_type = set[2]
       /\ depth_channel_name = set[3]
  /\ json_only \in BOOLEAN
  /\ pc = "GenerateCameraPositions"
  /\ RigLocalsInit

\* no CreateRig call in progress
RigIdle ==
  /\ headbox_min = Vec(Zero, Zero, Zero)
  /\ headbox_max = Vec(Zero, Zero, Zero)
  /\ num_view_groups = 0
  /\ near_clip = Zero
  /\ far_clip = Zero
  /\ color_file_path_pattern = <<>>
  /\ depth_file_path_pattern = <<>>
  /\ image_size = 0
  /\ depth_type = ""
  /\ depth_channel_name = ""
  /\ json_only = TRUE
  /\ pc = "idle"
  /\ RigLocalsInit

RadicalInverseIdle ==
  /\ ri_pc = "idle"
  /\ ri_index = 0
  /\ ri_base = 2
  /\ ri_a = 0
  /\ reversed_digits = 0
  /\ base_n = 1
  /\ ri_result = Zero

ProjectionIdle ==
  /\ proj_pc = "idle"
  /\ proj_near = Zero
  /\ proj_far = Zero
  /\ proj_result = Raise("none")

Init == RigInit /\ RadicalInverseIdle /\ ProjectionIdle

\* ------------------------------------------------ GenerateCameraPositions
headbox_center == HeadboxCenter(headbox_min, headbox_max)

\* line 257: num_cameras <= 0
RaiseNotPositive ==
  /\ pc = "GenerateCameraPositions"
  /\ num_view_groups <= 0
  /\ raised' = "ValueError"
  /\ pc' = "raised"
  /\ UNCHANGED << argVars, genVars, hostVars, viewVars, fileVars >>
  /\ UNCHANGED << riVars, projVars >>

AfterPositions == IF json_only THEN "CreateViewGroups" ELSE "CreateCameras"

\* line 260: a single camera sits at the headbox center
SingleCamera ==
  /\ pc = "GenerateCameraPositions"
  /\ num_view_groups = 1
  /\ camera_positions' = << headbox_center >>
  /\ pc' = AfterPositions
  /\ UNCHANGED << argVars, raised, samples, max_sample, unsorted_positions,
                  hostVars, viewVars, fileVars >>
  /\ UNCHANGED << riVars, projVars >>

\* lines 264-265
StartSampling ==
  /\ pc = "GenerateCameraPositions"
  /\ num_view_groups >= 2
  /\ samples' = <<>>
  /\ max_sample' = Vec(Zero, Zero, Zero)
  /\ pc' = "sample"
  /\ UNCHANGED << argVars, raised, unsorted_positions, camera_positions,
                  hostVars, viewVars, fileVars >>
  /\ UNCHANGED << riVars, projVars >>

\* lines 266-275, one iteration; the last one falls through to line 277
AppendSample ==
  /\ pc = "sample"
  /\ Len(samples) < num_view_groups
  /\ LET i == Len(samples)
         sample == HammersleySample(i, num_view_groups)
     IN /\ max_sample' = [dim \in 1..3 |-> FMax(max_sample[dim], sample[dim])]
        /\ samples' = Append(samples, sample)
        /\ pc' = IF i + 1 = num_view_groups THEN "normalize" ELSE "sample"
  /\ UNCHANGED << argVars, raised, unsorted_positions, camera_positions,
                  hostVars, viewVars, fileVars >>
  /\ UNCHANGED << riVars, projVars >>

\* sample[dim] /= max_sample[dim]; a zero divisor raises ZeroDivisionError
Normalized(sample, maximum) ==
  [dim \in 1..3 |-> FDiv(sample[dim], maximum[dim])]

\* lines 280-285, one iteration: the sample is normalized in place (a zero
\* divisor would raise ZeroDivisionError; no run reaches one)
NormalizeSample ==
  /\ pc = "normalize"
  /\ Len(unsorted_positions) < Len(samples)
  /\ \A dim \in 1..3 : max_sample[dim] # Zero
  /\ LET k == Len(unsorted_positions) + 1
         sample == Normalized(samples[k], max_sample)
     IN /\ samples' = [samples EXCEPT ![k] = sample]
        /\ unsorted_positions' =
             Append(unsorted_positions,
                    PointInBox(headbox_min, headbox_max, sample))
        /\ pc' = IF k = Len(samples) THEN "sort" ELSE "normalize"
  /\ UNCHANGED << argVars, raised, max_sample, camera_positions,
                  hostVars, viewVars, fileVars >>
  /\ UNCHANGED << riVars, projVars >>

\* the nearest position kept as sampled
SortedPositionsWithoutCenter(positions, center) ==
  SortedByDistance(positions, center)

\* the positions left in sampling order
SortedPositionsUnsorted(positions, center) ==
  [positions EXCEPT ![1] = center]

\* lines 287-292
SortedPositions(positions, center) ==
  LET sorted_positions == SortedByDistance(positions, center)
  IN [sorted_positions EXCEPT ![1] = center]

SortAndReturn ==
  /\ pc = "sort"
  /\ camera_positions' = SortedPositions(unsorted_positions, headbox_center)
  /\ pc' = AfterPositions
  /\ UNCHANGED << argVars, raised, samples, max_sample, unsorted_positions,
                  hostVars, viewVars, fileVars >>
  /\ UNCHANGED << riVars, projVars >>

\* ------------------------------------------------------------ CreateCameras
\* lines 313-319: the timeline is set to the frames of the rig
SetPlaybackOptions ==
  /\ pc = "CreateCameras"
  /\ timeline' = << 0, Len(camera_positions) - 1 >>
  /\ pc' = "camera"
  /\ UNCHANGED << argVars, raised, genVars, cameras, viewVars, fileVars >>
  /\ UNCHANGED << riVars, projVars >>

\* lines 322-329: the next cube-face camera is created and rotated
CreateCamera ==
  /\ pc = "camera"
  /\ LET face == Faces[Len(cameras) + 1]
     IN cameras' = Append(cameras,
                          [name |-> "seurat_" \o face,
                           nearClipPlane |-> near_clip,
                           farClipPlane |-> far_clip,
                           rotation |-> RotateCamera(face),
                           keyframes |-> <<>>])
  /\ pc' = "keyframe"
  /\ UNCHANGED << argVars, raised, genVars, timeline, viewVars, fileVars >>
  /\ UNCHANGED << riVars, projVars >>

\* lines 332-338, one iteration: translateX, Y and Z keyed at the frame
SetKeyframes ==
  /\ pc = "keyframe"
  /\ LET c == Len(cameras)
         t == Len(cameras[c].keyframes)
         keyed == Append(cameras[c].keyframes, << t, camera_positions[t + 1] >>)
     IN /\ cameras' = [cameras EXCEPT ![c].keyframes = keyed]
        /\ pc' = IF t + 1 < Len(camera_positions) THEN "keyframe"
                 ELSE IF c < Len(Faces) THEN "camera"
                 ELSE "CreateViewGroups"
  /\ UNCHANGED << argVars, raised, genVars, timeline, viewVars, fileVars >>
  /\ UNCHANGED << riVars, projVars >>

\* --------------------------------------------------------- CreateViewGroups
\* one list object per face, shared by every call for that face
SharedMatrixObject(objects, face_name) ==
  CHOOSE k \in 1..Len(Faces) : Faces[k] = face_name

\* The list object a call of WorldFromEyeMatrixFromFace returns: the list
\* display is evaluated on every call, so it is an object no view holds yet
NewMatrixObject(objects, face_name) == Len(objects) + 1

Store(objects, ref, matrix) ==
  IF ref = Len(objects) + 1 THEN Append(objects, matrix)
  ELSE [objects EXCEPT ![ref] = matrix]

\* Python index of the translation entry of row i
TranslationIndex(i) == 4 * i + 3

\* lines 377-379 with a valid clip range
BeginView ==
  /\ pc = "CreateViewGroups"
  /\ LET face == Faces[face_index]
         absolute_position == camera_positions[view_group_index + 1]
         projection == CubeFaceProjectionMatrix(near_clip, far_clip)
         ref == NewMatrixObject(heap, face)
     IN /\ projection.raised = "none"
        /\ position' = [d \in 1..3 |->
                          FSub(absolute_position[d], headbox_center[d])]
        /\ clip_from_eye_matrix' = projection.value
        /\ world_from_eye_matrix' = ref
        /\ heap' = Store(heap, ref, WorldFromEyeMatrixFromFace(face).value)
  /\ translation_index' = 0
  /\ pc' = "translate"
  /\ UNCHANGED << argVars, raised, genVars, hostVars, view_group_index,
                  face_index, views, view_groups, fileVars >>
  /\ UNCHANGED << riVars, projVars >>

\* line 378 raising out of CreateViewGroups and CreateRig
BeginViewRaise ==
  /\ pc = "CreateViewGroups"
  /\ LET projection == CubeFaceProjectionMatrix(near_clip, far_clip)
     IN /\ projection.raised # "none"
        /\ raised' = projection.raised
  /\ pc' = "raised"
  /\ UNCHANGED << argVars, genVars, hostVars, viewVars, fileVars >>
  /\ UNCHANGED << riVars, projVars >>

\* lines 381-382, one iteration
SetTranslation ==
  /\ pc = "translate"
  /\ LET i == translation_index
         matrix == heap[world_from_eye_matrix]
     IN heap' = [heap EXCEPT ![world_from_eye_matrix] =
                   [matrix EXCEPT ![TranslationIndex(i) + 1] = position[i + 1]]]
  /\ translation_index' = translation_index + 1
  /\ pc' = IF translation_index + 1 < 3 THEN "translate" ELSE "paths"
  /\ UNCHANGED << argVars, raised, genVars, hostVars, view_group_index,
                  face_index, position, clip_from_eye_matrix,
                  world_from_eye_matrix, views, view_groups, fileVars >>
  /\ UNCHANGED << riVars, projVars >>

\* the colour path formatted from the depth pattern
ColorPathFromDepthPattern ==
  FormatPath(depth_file_path_pattern, Faces[face_index], view_group_index)

ColorPath ==
  FormatPath(color_file_path_pattern, Faces[face_index], view_group_index)

DepthPath ==
  FormatPath(depth_file_path_pattern, Faces[face_index], view_group_index)

\* lines 385-411
NewView ==
  [projective_camera |->
     [image_width |-> image_size,
      image_height |-> image_size,
      clip_from_eye_matrix |-> clip_from_eye_matrix,
      world_from_eye_matrix |-> world_from_eye_matrix,
      depth_type |-> depth_type],
   depth_image_file |->
     [color |-> [path |-> ColorPath.value, channel_0 |-> "R",
                 channel_1 |-> "G", channel_2 |-> "B", channel_alpha |-> "A"],
      depth |-> [path |-> DepthPath.value,
                 channel_0 |-> depth_channel_name]]]

\* lines 394-395 raising out of CreateViewGroups and CreateRig
FormatPathsRaise ==
  /\ pc = "paths"
  /\ ColorPath.raised # "none" \/ DepthPath.raised # "none"
  /\ raised' = IF ColorPath.raised # "none" THEN ColorPath.raised
               ELSE DepthPath.raised
  /\ pc' = "raised"
  /\ UNCHANGED << argVars, genVars, hostVars, viewVars, fileVars >>
  /\ UNCHANGED << riVars, projVars >>

\* lines 385-414: the view is appended; after the sixth face the group is
\* appended, and after the last group line 417 returns
AppendView ==
  /\ pc = "paths"
  /\ ColorPath.raised = "none"
  /\ DepthPath.raised = "none"
  /\ IF face_index < Len(Faces)
     THEN /\ views' = Append(views, NewView)
          /\ face_index' = face_index + 1
          /\ UNCHANGED << view_groups, view_group_index >>
          /\ pc' = "CreateViewGroups"
     ELSE /\ views' = <<>>
          /\ face_index' = 1
          /\ view_groups' =
               Append(view_groups, [views |-> Append(views, NewView)])
          /\ view_group_index' = view_group_index + 1
          /\ pc' = IF view_group_index + 1 < Len(camera_positions)
                   THEN "CreateViewGroups" ELSE "dumps"
  /\ UNCHANGED << argVars, raised, genVars, hostVars, position,
                  clip_from_eye_matrix, world_from_eye_matrix,
                  translation_index, heap, fileVars >>
  /\ UNCHANGED << riVars, projVars >>

\* ---------------------------------------------------------------- manifest
\* json.dumps walks the structure: every matrix reference is written out as
\* the list it refers to
Serialized(view) ==
  [view EXCEPT !.projective_camera.world_from_eye_matrix = heap[@]]

SerializedGroups ==
  [g \in 1..Len(view_groups) |->
     [views |-> [v \in 1..Len(view_groups[g].views) |->
                   Serialized(view_groups[g].views[v])]]]

\* line 479
JsonDumps ==
  /\ pc = "dumps"
  /\ json_string' = [view_groups |-> SerializedGroups]
  /\ pc' = "open"
  /\ UNCHANGED << argVars, raised, genVars, hostVars, viewVars, json_file >>
  /\ UNCHANGED << riVars, projVars >>

\* line 480: open(json_file_path, 'w') creates or truncates the file
OpenFile ==
  /\ pc = "open"
  /\ json_file' = [opened |-> TRUE, written |-> FALSE, content |-> <<>>]
  /\ pc' = "write"
  /\ UNCHANGED << argVars, raised, genVars, hostVars, viewVars, json_string >>
  /\ UNCHANGED << riVars, projVars >>

\* line 481
WriteFile ==
  /\ pc = "write"
  /\ json_file' = [opened |-> TRUE, written |-> TRUE, content |-> json_string]
  /\ pc' = "done"
  /\ UNCHANGED << argVars, raised, genVars, hostVars, viewVars, json_string >>
  /\ UNCHANGED << riVars, projVars >>

Next ==
  \/ RaiseNotPositive
  \/ SingleCamera
  \/ StartSampling
  \/ AppendSample
  \/ NormalizeSample
  \/ SortAndReturn
  \/ SetPlaybackOptions
  \/ CreateCamera
  \/ SetKeyframes
  \/ BeginView
  \/ BeginViewRaise
  \/ SetTranslation
  \/ FormatPathsRaise
  \/ AppendView
  \/ JsonDumps
  \/ OpenFile
  \/ WriteFile

Spec == Init /\ [][Next]_vars

\* ------------------------------------------- RadicalInverse on its own
RadicalInverseInit ==
  /\ ri_index \in 0..MaxIndex
  /\ ri_base \in 2..MaxBase
  /\ ri_a = ri_index
  /\ reversed_digits = 0
  /\ base_n = 1
  /\ ri_result = Zero
  /\ ri_pc = "loop"

\* lines 156-161, one iteration
RadicalInverseStep ==
  /\ ri_pc = "loop"
  /\ ri_a > 0
  /\ LET st == RadicalInverseIteration(<<ri_a, reversed_digits, base_n>>,
                                       ri_base)
     IN /\ ri_a' = st[1]
        /\ reversed_digits' = st[2]
        /\ base_n' = st[3]
  /\ UNCHANGED << ri_pc, ri_index, ri_base, ri_result, rigVars, projVars >>

\* line 163
RadicalInverseReturn ==
  /\ ri_pc = "loop"
  /\ ~(ri_a > 0)
  /\ ri_result' = RadicalInverseResult(reversed_digits, base_n)
  /\ ri_pc' = "done"
  /\ UNCHANGED << ri_index, ri_base, ri_a, reversed_digits, base_n,
                  rigVars, projVars >>

NextRadicalInverse ==
  \/ RadicalInverseStep
  \/ RadicalInverseReturn

InitRadicalInverse == RigIdle /\ ProjectionIdle /\ RadicalInverseInit

SpecRadicalInverse == InitRadicalInverse /\ [][NextRadicalInverse]_vars

\* --------------------------------- CubeFaceProjectionMatrix on its own
\* clip planes -MaxClip/2, ..., 0, 1/2, 1, ..., MaxClip
ClipValues == { Norm(k, -1) : k \in (-MaxClip) .. (2 * MaxClip) }

ProjectionInit ==
  /\ proj_near \in ClipValues
  /\ proj_far \in ClipValues
  /\ proj_result = Raise("none")
  /\ proj_pc = "call"

\* lines 119-123
ProjectionRaise ==
  /\ proj_pc = "call"
  /\ CubeFaceProjectionMatrix(proj_near, proj_far).raised # "none"
  /\ proj_result' = CubeFaceProjectionMatrix(proj_near, proj_far)
  /\ proj_pc' = "done"
  /\ UNCHANGED << proj_near, proj_far, rigVars, riVars >>

\* lines 125-140
ProjectionReturn ==
  /\ proj_pc = "call"
  /\ CubeFaceProjectionMatrix(proj_near, proj_far).raised = "none"
  /\ proj_result' = CubeFaceProjectionMatrix(proj_near, proj_far)
  /\ proj_pc' = "done"
  /\ UNCHANGED << proj_near, proj_far, rigVars, riVars >>

NextProjection ==
  \/ ProjectionRaise
  \/ ProjectionReturn

InitProjection == RigIdle /\ RadicalInverseIdle /\ ProjectionInit

SpecProjection == InitProjection /\ [][NextProjection]_vars

\* ================================================================== claims
\* C1: once GenerateCameraPositions has returned, the first element of its
\* result is exactly the headbox center PointInBox(min, max, [.5, .5, .5]);
\* for count = 1 the result is that one point and nothing else.
C1_FirstPositionIsCenter ==
  camera_positions # <<>> =>
    /\ camera_positions[1] =
         PointInBox(headbox_min, headbox_max, <<Half, Half, Half>>)
    /\ num_view_groups = 1 =>
         camera_positions =
           << PointInBox(headbox_min, headbox_max, <<Half, Half, Half>>) >>

\* a sampled run: the nearest sample was not the center and was replaced
C1_Witness ==
  /\ Len(camera_positions) >= 2
  /\ \A k \in 1..Len(unsorted_positions) :
       unsorted_positions[k] # camera_positions[1]

\* C2: whenever CreateRig has raised (count <= 0, near <= 0, far <= near, or a
\* pattern that fails substitution), no output exists: the host timeline is
\* untouched, no host camera was created, rotated or keyframed, and the
\* manifest file was neither opened nor written.
C2_NoOutputWhenRaised ==
  raised # "none" =>
    /\ timeline = <<>>
    /\ cameras = <<>>
    /\ json_file = NoFile

\* C3: once CreateViewGroups has returned, there is one view group per input
\* position, in input order, each of 6 views in the order front, back, left,
\* right, bottom, top; view j of group k carries the colour and depth paths
\* obtained by substituting (name of face j, k) into the respective pattern,
\* image_width = image_height = image_size and the caller's depth_type.
C3_ViewGroupsShape ==
  pc \in {"dumps", "open", "write", "done"} =>
    /\ Len(view_groups) = Len(camera_positions)
    /\ \A k \in 1..Len(view_groups) :
         /\ Len(view_groups[k].views) = 6
         /\ \A j \in 1..6 :
              LET view == view_groups[k].views[j]
                  args == << StrArg(Faces[j]), IntArg(k - 1) >>
                  color == Substitute(color_file_path_pattern, args)
                  depth == Substitute(depth_file_path_pattern, args)
              IN /\ color.raised = "none"
                 /\ view.depth_image_file.color.path = color.value
                 /\ depth.raised = "none"
                 /\ view.depth_image_file.depth.path = depth.value
                 /\ view.projective_camera.image_width = image_size
                 /\ view.projective_camera.image_height = image_size
                 /\ view.projective_camera.depth_type = depth_type

\* several groups were built and written out
C3_Witness ==
  /\ pc = "done"
  /\ Len(view_groups) >= 3
  /\ view_groups[3].views[6].depth_image_file.color.path = "top_color.0002.exr"

\* C4: every position GenerateCameraPositions returns lies inside the
\* headbox, min[i] <= position[i] <= max[i] on each axis (every headbox of
\* the model has min[i] <= max[i]).
C4_PositionsInsideHeadbox ==
  \A k \in 1..Len(camera_positions) : \A d \in 1..3 :
    /\ FLeq(headbox_min[d], camera_positions[k][d])
    /\ FLeq(camera_positions[k][d], headbox_max[d])

\* The matrix WorldFromEyeMatrixFromFace has just returned for the face at
\* hand: no translation entry is written yet
JustReturned(face_name) ==
  /\ pc = "translate"
  /\ translation_index = 0
  /\ Faces[face_index] = face_name

\* Image of the eye-space axis (0-based column) under the matrix just built
Column(axis) ==
  << At(heap[world_from_eye_matrix], axis),
     At(heap[world_from_eye_matrix], 4 + axis),
     At(heap[world_from_eye_matrix], 8 + axis) >>

\* C5 as stated: front is the identity, back negates X and Z, left maps eye
\* +Z to world -X and preserves Y, right maps eye +Z to world +X and
\* preserves Y, bottom maps eye +Z to world +Y.
C5_FaceDirectionsAsStated ==
  /\ JustReturned("front") => heap[world_from_eye_matrix] = FrontMatrix
  /\ JustReturned("back") =>
       /\ Column(0) = << Neg(One), Zero, Zero >>
       /\ Column(1) = << Zero, One, Zero >>
       /\ Column(2) = << Zero, Zero, Neg(One) >>
  /\ JustReturned("left") =>
       /\ Column(2) = << Neg(One), Zero, Zero >>
       /\ Column(1) = << Zero, One, Zero >>
  /\ JustReturned("right") =>
       /\ Column(2) = << One, Zero, Zero >>
       /\ Column(1) = << Zero, One, Zero >>
  /\ JustReturned("bottom") => Column(2) = << Zero, One, Zero >>

\* C5 amended: as stated, except that left maps eye +Z to world +X and right
\* maps eye +Z to world -X (the viewing direction, eye -Z, goes to world -X
\* for left and +X for right).
C5_FaceDirections ==
  /\ JustReturned("front") => heap[world_from_eye_matrix] = FrontMatrix
  /\ JustReturned("back") =>
       /\ Column(0) = << Neg(One), Zero, Zero >>
       /\ Column(1) = << Zero, One, Zero >>
       /\ Column(2) = << Zero, Zero, Neg(One) >>
  /\ JustReturned("left") =>
       /\ Column(2) = << One, Zero, Zero >>
       /\ Column(1) = << Zero, One, Zero >>
  /\ JustReturned("right") =>
       /\ Column(2) = << Neg(One), Zero, Zero >>
       /\ Column(1) = << Zero, One, Zero >>
  /\ JustReturned("bottom") => Column(2) = << Zero, One, Zero >>

C5_Witness == JustReturned("left") /\ Column(2) = << One, Zero, Zero >>

\* C6: CubeFaceProjectionMatrix(near, far) raises the invalid-argument error
\* exactly when near <= 0 or far <= near; for every other input it returns
\* 16 entries and none of its six divisions has a zero denominator.
C6_ProjectionRejectsExactly ==
  proj_pc = "done" =>
    IF FLeq(proj_near, Zero) \/ FLeq(proj_far, proj_near)
    THEN proj_result.raised = "ValueError"
    ELSE /\ proj_result.raised = "none"
         /\ Len(proj_result.value) = 16
         /\ \A k \in 1..6 :
              ProjectionDenominators(proj_near, proj_far)[k] # Zero

\* near = far > 0 was rejected
C6_Witness ==
  /\ proj_pc = "done"
  /\ FLess(Zero, proj_near)
  /\ proj_far = proj_near
  /\ proj_result.raised = "ValueError"

\* C7: when RadicalInverse(index, base) returns, reversed_digits < base_n and
\* its result r satisfies 0 <= r < 1, with r = 0 for index 0.
C7_RadicalInverseBelowOne ==
  ri_pc = "done" =>
    /\ reversed_digits < base_n
    /\ FLeq(Zero, ri_result)
    /\ FLess(ri_result, One)
    /\ ri_index = 0 => ri_result = Zero

\* C8: for count >= 2 each axis's maximum over all count Hammersley samples
\* is strictly positive and final before the first division; after the
\* normalization every sample component lies in [0, 1], each axis has a
\* sample at 0 and a sample at 1, and the box spanned by the mapped
\* positions (before the center is substituted) is exactly the headbox.
C8_NormalizedSamplesSpanBox ==
  /\ (samples # <<>> /\ pc # "sample") =>
       \A d \in 1..3 :
         /\ FLess(Zero, max_sample[d])
         /\ \E i \in 0..(num_view_groups - 1) :
              max_sample[d] = HammersleySample(i, num_view_groups)[d]
         /\ \A i \in 0..(num_view_groups - 1) :
              FLeq(HammersleySample(i, num_view_groups)[d], max_sample[d])
  /\ (samples # <<>> /\ pc \notin {"sample", "normalize"}) =>
       \A d \in 1..3 :
         /\ \A k \in 1..Len(samples) :
              FLeq(Zero, samples[k][d]) /\ FLeq(samples[k][d], One)
         /\ \E k \in 1..Len(samples) : samples[k][d] = Zero
         /\ \E k \in 1..Len(samples) : samples[k][d] = One
         /\ \A k \in 1..Len(unsorted_positions) :
              /\ FLeq(headbox_min[d], unsorted_positions[k][d])
              /\ FLeq(unsorted_positions[k][d], headbox_max[d])
         /\ \E k \in 1..Len(unsorted_positions) :
              unsorted_positions[k][d] = headbox_min[d]
         /\ \E k \in 1..Len(unsorted_positions) :
              unsorted_positions[k][d] = headbox_max[d]

\* C9: the sequence GenerateCameraPositions returns has exactly count
\* elements and is ordered by non-decreasing distance to the headbox center.
C9_SortedByDistanceToCenter ==
  camera_positions # <<>> =>
    LET distance == [k \in 1..Len(camera_positions) |->
                       Distance(camera_positions[k], headbox_center)]
    IN /\ Len(camera_positions) = num_view_groups
       /\ \A i \in 1..Len(camera_positions) :
            \A j \in 1..Len(camera_positions) :
              i < j => FLeq(distance[i], distance[j])

\* the sort moved a later sample in front of an earlier one
C9_Witness ==
  /\ Len(camera_positions) >= 3
  /\ \E i \in 1..Len(unsorted_positions) : \E j \in 1..Len(unsorted_positions) :
       /\ 1 < i /\ i < j
       /\ FLess(Distance(unsorted_positions[j], headbox_center),
                Distance(unsorted_positions[i], headbox_center))

\* The world-from-eye and clip-from-eye matrices of the view of face j at
\* the position are what the claim says: offset is position - headbox_center
\* and projection is CubeFaceProjectionMatrix(near, far)
ViewMatricesAsBuilt(view, j, offset, projection) ==
  LET matrix == heap[view.projective_camera.world_from_eye_matrix]
      rotation == WorldFromEyeMatrixFromFace(Faces[j]).value
  IN /\ \A row \in 0..2 : At(matrix, 4 * row + 3) = offset[row + 1]
     /\ \A index \in (0..15) \ {3, 7, 11} :
          At(matrix, index) = At(rotation, index)
     /\ view.projective_camera.clip_from_eye_matrix = projection

\* C10: at every moment, every view built so far (of group k, face f) has as
\* world_from_eye_matrix the matrix WorldFromEyeMatrixFromFace(f) with only
\* entries 3, 7 and 11 replaced by positions[k] - headbox_center, and as
\* clip_from_eye_matrix CubeFaceProjectionMatrix(near, far) unchanged: no
\* later write of a translation changes the matrix of a view built before.
C10_ViewMatricesIndependent ==
  (view_groups # <<>> \/ views # <<>>) =>
    LET center == headbox_center
        offset == [k \in 1..Len(camera_positions) |->
                     [d \in 1..3 |-> FSub(camera_positions[k][d], center[d])]]
        projection == CubeFaceProjectionMatrix(near_clip, far_clip).value
    IN /\ \A k \in 1..Len(view_groups) :
            \A j \in 1..Len(view_groups[k].views) :
              ViewMatricesAsBuilt(view_groups[k].views[j], j, offset[k],
                                  projection)
       /\ \A j \in 1..Len(views) :
            ViewMatricesAsBuilt(views[j], j, offset[view_group_index + 1],
                                projection)

\* two groups are built and their front views differ in translation
C10_Witness ==
  /\ Len(view_groups) >= 2
  /\ heap[view_groups[1].views[1].projective_camera.world_from_eye_matrix] #
       heap[view_groups[2].views[1].projective_camera.world_from_eye_matrix]
====
